---------------------------- MODULE Spec2Model ----------------------------
(***************************************************************************)
(* A model of the dental booking service (src/booking-service.js): the     *)
(* phone normalizer and formatter, the slot fetcher with its fallback,     *)
(* the browser-automation booking flow bookAppointment with its result     *)
(* classifier, and the HTTP handlers that call them.                       *)
(*                                                                         *)
(* A JavaScript string is a sequence of one-character strings, so that     *)
(* length, slice, replace and includes are computed as the code computes   *)
(* them.  undefined and null are the one-element sequences Undefined and   *)
(* Null, whose element is no single character.                             *)
(***************************************************************************)
EXTENDS Integers, Sequences, FiniteSets, TLC

VARIABLES
    req,              \* the request body (req.body)
    hpc,              \* where the HTTP handler stands
    res,              \* the HTTP response sent (status, body)
    pc,               \* where bookAppointment stands
    browser,          \* `browser` of bookAppointment: "undefined", or the session
                      \* it holds: "open", "closed", "closeFailed" (close() rejected)
    patientData,      \* the argument of bookAppointment
    normalizedPhone,  \* const normalizedPhone of bookAppointment
    formattedPhone,   \* const formattedPhone of bookAppointment
    enteredPhone,     \* const enteredPhone: the read-back of the phone field
    timeSlotButtons,  \* the visible texts of the elements page.$$ returned
    btnIdx,           \* the for..of position in timeSlotButtons
    pageText,         \* const pageText
    result,           \* what bookAppointment returned
    thrown,           \* the error bookAppointment threw to its caller
    ops,              \* every call made on the browser, in order
    remote,           \* how the axios.get of getTimeSlots ended
    slots,            \* what getTimeSlots returned
    attempts,         \* the bookAppointment invocations in flight together
    sessions          \* every browser session chromium.launch has started

vars == <<req, hpc, res, pc, browser, patientData, normalizedPhone,
          formattedPhone, enteredPhone, timeSlotButtons, btnIdx, pageText,
          result, thrown, ops, remote, slots, attempts, sessions>>

handlerVars == <<req, hpc, res>>
engineVars == <<pc, browser, patientData, normalizedPhone, formattedPhone,
                enteredPhone, timeSlotButtons, btnIdx, pageText, result,
                thrown, ops>>
slotVars == <<remote, slots>>
concurrentVars == <<attempts, sessions>>

-----------------------------------------------------------------------------
(* JavaScript values *)

Undefined == <<"undefined">>
Null == <<"null">>

\* !x for a string-or-undefined x
Falsy(x) == x = Undefined \/ x = Null \/ x = <<>>

Min(a, b) == IF a < b THEN a ELSE b
Max(a, b) == IF a > b THEN a ELSE b

DigitChars == <<"0","1","2","3","4","5","6","7","8","9">>
IsDigit(c) == \E i \in 1..Len(DigitChars) : DigitChars[i] = c

\* s.slice(from) / s.substring(from), from >= 0, 0-based
SliceFrom(s, from) == SubSeq(s, from + 1, Len(s))
\* s.slice(from, to) / s.substring(from, to), 0 <= from, 0-based, to exclusive
Slice(s, from, to) == SubSeq(s, from + 1, Min(to, Len(s)))
\* s.slice(-n), n > 0
SliceLast(s, n) == SubSeq(s, Max(Len(s) - n, 0) + 1, Len(s))
\* s.startsWith(t)
StartsWith(s, t) == Len(s) >= Len(t) /\ SubSeq(s, 1, Len(t)) = t
\* s.includes(t)
Includes(s, t) == \E i \in 0..(Len(s) - Len(t)) : SubSeq(s, i + 1, i + Len(t)) = t
\* s.replace(/\D/g, '')
StripNonDigits(s) == SelectSeq(s, IsDigit)

-----------------------------------------------------------------------------
(* Phone normalizer and formatter *)

normalizePhone_NoLengthTest(phone) ==
    IF Falsy(phone) THEN <<>>
    ELSE LET digits == StripNonDigits(phone)
         IN  IF StartsWith(digits, <<"1">>)
             THEN SliceFrom(digits, 1)
             ELSE IF Len(digits) >= 10 THEN SliceLast(digits, 10) ELSE digits

normalizePhone_KeepFirst(phone) ==
    IF Falsy(phone) THEN <<>>
    ELSE LET digits == StripNonDigits(phone)
         IN  IF Len(digits) = 11 /\ StartsWith(digits, <<"1">>)
             THEN SliceFrom(digits, 1)
             ELSE IF Len(digits) >= 10 THEN Slice(digits, 0, 10) ELSE digits

normalizePhone(phone) ==
    IF Falsy(phone) THEN <<>>
    ELSE LET digits == StripNonDigits(phone)
         IN  IF Len(digits) = 11 /\ StartsWith(digits, <<"1">>)
             THEN SliceFrom(digits, 1)
             ELSE IF Len(digits) >= 10 THEN SliceLast(digits, 10) ELSE digits

formatPhone_ReturnsDigits(phone) ==
    LET normalized == normalizePhone(phone)
    IN  IF Len(normalized) = 10
        THEN <<"(">> \o Slice(normalized, 0, 3) \o <<")", " ">>
             \o Slice(normalized, 3, 6) \o <<"-">> \o SliceFrom(normalized, 6)
        ELSE normalized

formatPhone(phone) ==
    LET normalized == normalizePhone(phone)
    IN  IF Len(normalized) = 10
        THEN <<"(">> \o Slice(normalized, 0, 3) \o <<")", " ">>
             \o Slice(normalized, 3, 6) \o <<"-">> \o SliceFrom(normalized, 6)
        ELSE phone

-----------------------------------------------------------------------------
(* Phone inputs: the phones of testPhoneFormatting, cut short, extended    *)
(* by further digits, and behind a prefix.                                 *)

MaxCut == 6
MaxExtra == 3

CorePhones ==
    { <<"4","8","0","-","5","5","5","-","1","2","3","4">>,
      <<"4","8","0","5","5","5","1","2","3","4">>,
      <<"1","-","4","8","0","-","5","5","5","-","1","2","3","4">>,
      <<"(","4","8","0",")"," ","5","5","5","-","1","2","3","4">> ,
      <<"5","5","5","-","0","1","-","2","3">> }

PhonePrefixes ==
    { <<>>, <<"1">>, <<"+","1"," ">>, <<"1","-">>, <<"9">>, <<"0","1","1">> }

ExtraDigits(j) == [i \in 1..j |-> DigitChars[((i + 4) % 10) + 1]]

RawPhones ==
    { p \o SubSeq(c, 1, Len(c) - k) \o ExtraDigits(j) :
        p \in PhonePrefixes, c \in CorePhones, k \in 0..MaxCut, j \in 0..MaxExtra }
    \cup { Undefined, <<>> }

-----------------------------------------------------------------------------
(* Idle values *)

NoResponse == [status |-> 0, body |-> <<>>]
NoResult == [none |-> TRUE]
NoError == <<>>

EngineIdle ==
    /\ pc = "idle"
    /\ browser = "undefined"
    /\ patientData = <<>>
    /\ normalizedPhone = <<>>
    /\ formattedPhone = <<>>
    /\ enteredPhone = <<>>
    /\ timeSlotButtons = <<>>
    /\ btnIdx = 0
    /\ pageText = <<>>
    /\ result = NoResult
    /\ thrown = NoError
    /\ ops = <<>>

SlotsIdle ==
    /\ remote = [params |-> <<>>, kind |-> "none"]
    /\ slots = <<>>

ConcurrentIdle ==
    /\ attempts = <<>>
    /\ sessions = <<>>

-----------------------------------------------------------------------------
(* POST /format-phone *)

FormatPhoneHandler ==
    /\ hpc = "format-phone"
    /\ res' = [status |-> 200,
               body |-> [formatted |-> formatPhone(req.phone),
                         normalized |-> normalizePhone(req.phone)]]
    /\ hpc' = "done"
    /\ UNCHANGED <<req, engineVars, slotVars, concurrentVars>>

InitPhone ==
    /\ req \in [phone : RawPhones]
    /\ hpc = "format-phone"
    /\ res = NoResponse
    /\ EngineIdle
    /\ SlotsIdle
    /\ ConcurrentIdle

NextPhone == FormatPhoneHandler

SpecPhone == InitPhone /\ [][NextPhone]_vars

-----------------------------------------------------------------------------
(* Configuration and lookup tables *)

PracticeToken == <<"j","r","z","n","I","h","6","N","3","n">>

PROVIDERS ==
    (<<"d","r","-","s","m","i","t","h">> :> <<"1">>)
    @@ (<<"d","r","-","j","o","h","n","s","o","n">> :> <<"2">>)
    @@ (<<"a","n","y">> :> <<>>)

EmergencyExam == <<"e","m","e","r","g","e","n","c","y","-","e","x","a","m">>
Cleaning == <<"c","l","e","a","n","i","n","g">>

APPOINTMENT_TYPES ==
    (EmergencyExam :> <<"1">>)
    @@ (<<"n","e","w","-","p","a","t","i","e","n","t">> :> <<"2">>)
    @@ (<<"c","h","e","c","k","u","p">> :> <<"3">>)
    @@ (Cleaning :> <<"4">>)

\* table[key], undefined for a key the table does not hold
Lookup(table, key) == IF key \in DOMAIN table THEN table[key] ELSE Undefined
\* x || d
OrElse(x, d) == IF Falsy(x) THEN d ELSE x

-----------------------------------------------------------------------------
(* Slot fetcher *)

MockTimes ==
    <<"09:00", "09:30", "10:00", "10:30", "11:00",
      "14:00", "14:30", "15:00", "15:30", "16:00">>

generateMockSlots_ClosedOnWeekend(date) ==
    IF date = <<"2","0","2","6","-","0","2","-","2","8">> THEN <<>>
    ELSE [index \in 1..Len(MockTimes) |->
            [id |-> <<"slot-", index - 1>>, time |-> MockTimes[index],
             available |-> TRUE]]

generateMockSlots(date) ==
    [index \in 1..Len(MockTimes) |->
        [id |-> <<"slot-", index - 1>>, time |-> MockTimes[index],
         available |-> TRUE]]

\* The ways the axios.get of getTimeSlots ends: a 2xx response, or a rejection.
RemoteFailures == {"timeout", "non2xx", "network"}
RemoteKinds == {"ok"} \cup RemoteFailures

\* response.data of a 2xx response: the remote's slots, or a body that is no array.
RemoteData ==
    { <<>>,
      << [id |-> <<"r", 1>>, time |-> "09:00", available |-> TRUE],
         [id |-> <<"r", 2>>, time |-> "09:30", available |-> FALSE],
         [id |-> <<"r", 3>>, time |-> "13:00", available |-> TRUE] >>,
      Null }

\* new URLSearchParams({a, date, apptTypeId}) and the optional providerIds
SlotParams(date, appointmentTypeId, providerId) ==
    <<PracticeToken, date, appointmentTypeId>>
    \o (IF Falsy(providerId) THEN <<>> ELSE <<providerId>>)

\* getTimeSlots, given how its axios.get ended
getTimeSlots(date, kind, data) ==
    IF kind = "ok" THEN data ELSE generateMockSlots(date)

IsArray(v) == v # Null /\ v # Undefined

CheckAvailabilityValidate ==
    /\ hpc = "check-availability"
    /\ IF Falsy(req.date)
       THEN /\ res' = [status |-> 400, body |-> [error |-> <<"Date is required">>]]
            /\ hpc' = "done"
       ELSE /\ hpc' = "getTimeSlots"
            /\ UNCHANGED res
    /\ UNCHANGED <<req, engineVars, slotVars, concurrentVars>>

GetTimeSlots ==
    /\ hpc = "getTimeSlots"
    /\ \E kind \in RemoteKinds :
       \E data \in (IF kind = "ok" THEN RemoteData ELSE {Undefined}) :
          LET appointmentTypeId ==
                  OrElse(Lookup(APPOINTMENT_TYPES, req.appointmentType), <<"1">>)
              providerId == OrElse(Lookup(PROVIDERS, req.provider), <<>>)
          IN  /\ remote' = [params |-> SlotParams(req.date, appointmentTypeId, providerId),
                            kind |-> kind]
              /\ slots' = getTimeSlots(req.date, kind, data)
    /\ hpc' = "respond-availability"
    /\ UNCHANGED <<req, res, engineVars, concurrentVars>>

CheckAvailabilityRespond ==
    /\ hpc = "respond-availability"
    /\ IF IsArray(slots)
       THEN LET open == SelectSeq(slots, LAMBDA s : s.available)
            IN  res' = [status |-> 200,
                        body |-> [date |-> req.date,
                                  appointmentType |-> OrElse(req.appointmentType, EmergencyExam),
                                  slots |-> [i \in 1..Len(open) |-> open[i].time],
                                  count |-> Len(open)]]
       ELSE res' = [status |-> 500, body |-> [error |-> <<"slots.filter is not a function">>]]
    /\ hpc' = "done"
    /\ UNCHANGED <<req, engineVars, slotVars, concurrentVars>>

AvailabilityDates ==
    { Undefined, <<>>,
      <<"2","0","2","6","-","0","2","-","2","3">>,
      <<"2","0","2","6","-","0","2","-","2","8">>,
      <<"n","o","t","-","a","-","d","a","t","e">> }

AvailabilityTypes ==
    { Undefined, EmergencyExam, Cleaning, <<"w","h","i","t","e","n","i","n","g">> }

AvailabilityProviders ==
    { Undefined, <<"a","n","y">>, <<"d","r","-","s","m","i","t","h">> }

InitSlots ==
    /\ req \in [date : AvailabilityDates, appointmentType : AvailabilityTypes,
                provider : AvailabilityProviders]
    /\ hpc = "check-availability"
    /\ res = NoResponse
    /\ EngineIdle
    /\ SlotsIdle
    /\ ConcurrentIdle

NextSlots ==
    \/ CheckAvailabilityValidate
    \/ GetTimeSlots
    \/ CheckAvailabilityRespond

SpecSlots == InitSlots /\ [][NextSlots]_vars

-----------------------------------------------------------------------------
(* Result classifier *)

UpperChars == <<"A","B","C","D","E","F","G","H","I","J","K","L","M",
                "N","O","P","Q","R","S","T","U","V","W","X","Y","Z">>
LowerChars == <<"a","b","c","d","e","f","g","h","i","j","k","l","m",
                "n","o","p","q","r","s","t","u","v","w","x","y","z">>

IsUpper(c) == \E i \in 1..Len(UpperChars) : UpperChars[i] = c
IsLower(c) == \E i \in 1..Len(LowerChars) : LowerChars[i] = c
ToLower(c) ==
    IF IsUpper(c)
    THEN LowerChars[CHOOSE i \in 1..Len(UpperChars) : UpperChars[i] = c]
    ELSE c
ToLowerCase(s) == [i \in 1..Len(s) |-> ToLower(s[i])]

Confirmation == <<"c","o","n","f","i","r","m","a","t","i","o","n">>
Confirmed == <<"c","o","n","f","i","r","m","e","d">>
Success == <<"s","u","c","c","e","s","s">>
ErrorToken == <<"e","r","r","o","r">>
Failed == <<"f","a","i","l","e","d">>

\* The labels of /(?:confirmation|conf#|reference)[:\s#]*([A-Z0-9-]+)/i
ConfirmationLabels ==
    { Confirmation, <<"c","o","n","f","#">>, <<"r","e","f","e","r","e","n","c","e">> }
\* [:\s#]
IsSeparator(c) == c \in {":", "#", " ", "\t", "\n"}
\* [A-Z0-9-] under the i flag
IsCodeChar(c) == IsUpper(c) \/ IsLower(c) \/ IsDigit(c) \/ c = "-"

\* Where a greedy run that starts at position `from` (1-based) ends: the first
\* position at or after `from` that is not in the class, Len(inClass) + 1 when
\* there is none.  inClass[p] tells whether the character at p is in the class.
RunEnd(inClass, from) ==
    CHOOSE p \in from..(Len(inClass) + 1) :
        /\ p = Len(inClass) + 1 \/ ~inClass[p]
        /\ \A q \in from..(p - 1) : inClass[q]

\* The capture group of the regex matched at 0-based position i, Null when
\* the regex does not match there.
ConfirmationMatchAt(text, i) ==
    LET labels == { l \in ConfirmationLabels :
                      /\ i + Len(l) <= Len(text)
                      /\ ToLowerCase(SubSeq(text, i + 1, i + Len(l))) = l }
    IN  IF labels = {} THEN Null
        ELSE LET l == CHOOSE x \in labels : TRUE
                 codeStart == RunEnd([p \in 1..Len(text) |-> IsSeparator(text[p])],
                                     i + Len(l) + 1)
                 codeEnd == RunEnd([p \in 1..Len(text) |-> IsCodeChar(text[p])],
                                   codeStart)
             IN  IF codeEnd > codeStart
                 THEN SubSeq(text, codeStart, codeEnd - 1)
                 ELSE Null

ConfirmationMatch_Last(text) ==
    LET at == { i \in 0..Len(text) : ConfirmationMatchAt(text, i) # Null }
    IN  IF at = {} THEN Null
        ELSE ConfirmationMatchAt(text, CHOOSE i \in at : \A j \in at : i >= j)

\* pageText.match(...)[1] of the leftmost match, Null when match() is null
ConfirmationMatch(text) ==
    LET at == { i \in 0..Len(text) : ConfirmationMatchAt(text, i) # Null }
    IN  IF at = {} THEN Null
        ELSE ConfirmationMatchAt(text, CHOOSE i \in at : \A j \in at : i <= j)

RawResultLimit == 500

MsgBooked == <<"Appointment booked successfully">>
MsgValidation == <<"Booking failed - form validation error">>
MsgUnverified == <<"Form submitted - please verify in MaxAssist">>

IsPositive(text) ==
    \/ Includes(text, Confirmation)
    \/ Includes(text, Confirmed)
    \/ Includes(text, Success)

IsNegative(text) ==
    \/ Includes(text, ErrorToken)
    \/ Includes(text, Failed)

classify_NegativeFirst(text) ==
    LET base == [success |-> FALSE, confirmationNumber |-> Null, message |-> <<>>,
                 rawResult |-> Slice(text, 0, RawResultLimit)]
    IN  IF IsNegative(text)
        THEN [base EXCEPT !.message = MsgValidation]
        ELSE IF IsPositive(text)
        THEN [base EXCEPT !.success = TRUE, !.message = MsgBooked,
                          !.confirmationNumber = ConfirmationMatch(text)]
        ELSE [base EXCEPT !.success = TRUE, !.message = MsgUnverified]

\* The regular expression applied before the branches, on every page text
classify_ExtractsFirst(text) ==
    LET base == [success |-> FALSE, confirmationNumber |-> ConfirmationMatch(text),
                 message |-> <<>>, rawResult |-> Slice(text, 0, RawResultLimit)]
    IN  IF IsPositive(text)
        THEN [base EXCEPT !.success = TRUE, !.message = MsgBooked]
        ELSE IF IsNegative(text)
        THEN [base EXCEPT !.message = MsgValidation]
        ELSE [base EXCEPT !.success = TRUE, !.message = MsgUnverified]

\* The result bookAppointment builds from a page text that is a string
classify(text) ==
    LET base == [success |-> FALSE, confirmationNumber |-> Null, message |-> <<>>,
                 rawResult |-> Slice(text, 0, RawResultLimit)]
    IN  IF IsPositive(text)
        THEN [base EXCEPT !.success = TRUE, !.message = MsgBooked,
                          !.confirmationNumber = ConfirmationMatch(text)]
        ELSE IF IsNegative(text)
        THEN [base EXCEPT !.message = MsgValidation]
        ELSE [base EXCEPT !.success = TRUE, !.message = MsgUnverified]

(* Page texts: up to MaxFragments fragments, one after the other. *)

MaxFragments == 2

TextFragments ==
    { Confirmation, Confirmed, Success, ErrorToken, Failed,
      <<"E","r","r","o","r">>, <<"e","r","r">>, <<"o","r">>,
      <<" ","#","A","B","C","-","1","2","3">>,
      <<"R","e","f","e","r","e","n","c","e",":"," ","7">> }

RECURSIVE TextsOf(_)
TextsOf(n) ==
    IF n = 0 THEN { <<>> }
    ELSE LET shorter == TextsOf(n - 1)
         IN  shorter \cup { t \o f : t \in shorter, f \in TextFragments }

PageTexts == TextsOf(MaxFragments)

ClassifyText ==
    /\ pc = "classify-text"
    /\ result' = classify(pageText)
    /\ pc' = "classified"
    /\ UNCHANGED <<handlerVars, slotVars, concurrentVars, browser, patientData, normalizedPhone,
                   formattedPhone, enteredPhone, timeSlotButtons, btnIdx,
                   pageText, thrown, ops>>

InitClassify ==
    /\ req = <<>>
    /\ hpc = "none"
    /\ res = NoResponse
    /\ pc = "classify-text"
    /\ browser = "undefined"
    /\ patientData = <<>>
    /\ normalizedPhone = <<>>
    /\ formattedPhone = <<>>
    /\ enteredPhone = <<>>
    /\ timeSlotButtons = <<>>
    /\ btnIdx = 0
    /\ pageText \in PageTexts
    /\ result = NoResult
    /\ thrown = NoError
    /\ ops = <<>>
    /\ SlotsIdle
    /\ ConcurrentIdle

NextClassify == ClassifyText

SpecClassify == InitClassify /\ [][NextClassify]_vars

-----------------------------------------------------------------------------
(* bookAppointment: the browser automation.  Every awaited call on the     *)
(* browser either resolves or rejects; ops records each call as it is made.*)

\* A call on the browser: what was called on what, with which argument,
\* whether it resolved, and what it returned.  index is the position of a
\* time-slot element (the number of elements, for page.$$), else 0.
EntryAt(op, target, index, arg, ok, ret) ==
    [op |-> op, target |-> target, index |-> index, arg |-> arg, ok |-> ok,
     ret |-> ret]
Entry(op, target, arg, ok, ret) == EntryAt(op, target, 0, arg, ok, ret)

\* error.message of the rejection of a call
ErrorMessage(op, target) == <<op, target>>

\* The value the catch block returns
ErrorOutcome(message) ==
    [success |-> FALSE, message |-> <<"Booking error: ">> \o message]

\* await target.op(arg): resolves and goes on to `next`, or rejects into the
\* catch block, which builds the outcome and falls into finally
Await(op, target, arg, next) ==
    \E ok \in BOOLEAN :
        /\ ops' = Append(ops, Entry(op, target, arg, ok, <<>>))
        /\ IF ok
           THEN pc' = next /\ UNCHANGED result
           ELSE pc' = "finally" /\ result' = ErrorOutcome(ErrorMessage(op, target))

\* const x = await page.$(selector): a handle, null, or a rejection
\* A control used without the `if (control)` test: null.fill(...) throws
Query_ControlRequired(target, found, absent) ==
    \E r \in {"handle", "null", "throw"} :
        /\ ops' = Append(ops, Entry("$", target, <<>>, r # "throw", <<r>>))
        /\ IF r = "handle"
           THEN pc' = found /\ UNCHANGED result
           ELSE /\ pc' = "finally"
                /\ result' = ErrorOutcome(ErrorMessage("$", target))

Query(target, found, absent) ==
    \E r \in {"handle", "null", "throw"} :
        /\ ops' = Append(ops, Entry("$", target, <<>>, r # "throw", <<r>>))
        /\ CASE r = "handle" -> pc' = found /\ UNCHANGED result
             [] r = "null" -> pc' = absent /\ UNCHANGED result
             [] r = "throw" -> /\ pc' = "finally"
                               /\ result' = ErrorOutcome(ErrorMessage("$", target))

engineRest == <<browser, patientData, normalizedPhone, formattedPhone,
                enteredPhone, timeSlotButtons, btnIdx, pageText, thrown>>

BookingUrl == <<"/","p","a","t","i","e","n","t","/","b","o","o","k","?","a","=">>
              \o PracticeToken

BookStart ==
    /\ pc = "start"
    /\ normalizedPhone' = normalizePhone(patientData.phone)
    /\ formattedPhone' = formatPhone(patientData.phone)
    /\ pc' = "launch"
    /\ UNCHANGED <<handlerVars, slotVars, concurrentVars, browser, patientData, enteredPhone,
                   timeSlotButtons, btnIdx, pageText, result, thrown, ops>>

Launch ==
    /\ pc = "launch"
    /\ Await("launch", "chromium", <<>>, "newContext")
    /\ browser' = IF pc' = "newContext" THEN "open" ELSE browser
    /\ UNCHANGED <<handlerVars, slotVars, concurrentVars, patientData, normalizedPhone,
                   formattedPhone, enteredPhone, timeSlotButtons, btnIdx,
                   pageText, thrown>>

NewContext ==
    /\ pc = "newContext"
    /\ Await("newContext", "browser", <<>>, "newPage")
    /\ UNCHANGED <<handlerVars, slotVars, concurrentVars, engineRest>>

NewPage ==
    /\ pc = "newPage"
    /\ Await("newPage", "context", <<>>, "goto")
    /\ UNCHANGED <<handlerVars, slotVars, concurrentVars, engineRest>>

Goto ==
    /\ pc = "goto"
    /\ Await("goto", "page", BookingUrl, "waitForLoadState")
    /\ UNCHANGED <<handlerVars, slotVars, concurrentVars, engineRest>>

WaitForLoadState ==
    /\ pc = "waitForLoadState"
    /\ Await("waitForLoadState", "page", <<>>, "apptType.$")
    /\ UNCHANGED <<handlerVars, slotVars, concurrentVars, engineRest>>

TypeSelectQuery ==
    /\ pc = "apptType.$"
    /\ IF Falsy(patientData.appointmentType)
       THEN pc' = "firstName.$" /\ UNCHANGED <<ops, result>>
       ELSE Query("apptType", "apptType.selectOption", "firstName.$")
    /\ UNCHANGED <<handlerVars, slotVars, concurrentVars, engineRest>>

SelectOption ==
    /\ pc = "apptType.selectOption"
    /\ Await("selectOption", "apptType",
             OrElse(Lookup(APPOINTMENT_TYPES, patientData.appointmentType), <<"1">>),
             "firstName.$")
    /\ UNCHANGED <<handlerVars, slotVars, concurrentVars, engineRest>>

FirstNameQuery ==
    /\ pc = "firstName.$"
    /\ Query("firstName", "firstName.fill", "lastName.$")
    /\ UNCHANGED <<handlerVars, slotVars, concurrentVars, engineRest>>

FirstNameFill ==
    /\ pc = "firstName.fill"
    /\ Await("fill", "firstName", patientData.firstName, "lastName.$")
    /\ UNCHANGED <<handlerVars, slotVars, concurrentVars, engineRest>>

LastNameQuery ==
    /\ pc = "lastName.$"
    /\ Query("lastName", "lastName.fill", "phone.$")
    /\ UNCHANGED <<handlerVars, slotVars, concurrentVars, engineRest>>

LastNameFill ==
    /\ pc = "lastName.fill"
    /\ Await("fill", "lastName", patientData.lastName, "phone.$")
    /\ UNCHANGED <<handlerVars, slotVars, concurrentVars, engineRest>>

(* The phone field: write, read back, and one retry with the formatted phone *)

MaxTruncation == 1

\* What the phone field may hold after `written` was typed into it: the value,
\* the value cut short by the form, or the value as the form's mask renders it.
Readbacks(written) ==
    { SubSeq(written, 1, Len(written) - k) : k \in 0..Min(MaxTruncation, Len(written)) }
    \cup { formatPhone(written) }

\* A test for any difference instead of a shorter read-back
TruncationDetected_AnyDifference(entered, normalized) == entered # normalized

\* if (enteredPhone.length < normalizedPhone.length)
TruncationDetected(entered, normalized) == Len(entered) < Len(normalized)

PhoneQuery ==
    /\ pc = "phone.$"
    /\ Query("phone", "phone.clear", "email.$")
    /\ UNCHANGED <<handlerVars, slotVars, concurrentVars, engineRest>>

PhoneClear ==
    /\ pc = "phone.clear"
    /\ Await("fill", "phone", <<>>, "phone.fill")
    /\ UNCHANGED <<handlerVars, slotVars, concurrentVars, engineRest>>

PhoneFill ==
    /\ pc = "phone.fill"
    /\ Await("fill", "phone", normalizedPhone, "phone.inputValue")
    /\ UNCHANGED <<handlerVars, slotVars, concurrentVars, engineRest>>

PhoneInputValue ==
    /\ pc = "phone.inputValue"
    /\ \/ \E value \in Readbacks(normalizedPhone) :
            /\ ops' = Append(ops, Entry("inputValue", "phone", <<>>, TRUE, value))
            /\ enteredPhone' = value
            /\ pc' = IF TruncationDetected(value, normalizedPhone)
                     THEN "phone.retryClear" ELSE "email.$"
            /\ UNCHANGED result
       \/ /\ ops' = Append(ops, Entry("inputValue", "phone", <<>>, FALSE, <<>>))
          /\ result' = ErrorOutcome(ErrorMessage("inputValue", "phone"))
          /\ pc' = "finally"
          /\ UNCHANGED enteredPhone
    /\ UNCHANGED <<handlerVars, slotVars, concurrentVars, browser, patientData, normalizedPhone,
                   formattedPhone, timeSlotButtons, btnIdx, pageText, thrown>>

PhoneRetryClear ==
    /\ pc = "phone.retryClear"
    /\ Await("fill", "phone", <<>>, "phone.retryFill")
    /\ UNCHANGED <<handlerVars, slotVars, concurrentVars, engineRest>>

PhoneRetryFill_SameValue ==
    /\ pc = "phone.retryFill"
    /\ Await("fill", "phone", normalizedPhone, "email.$")
    /\ UNCHANGED <<handlerVars, slotVars, concurrentVars, engineRest>>

PhoneRetryFill ==
    /\ pc = "phone.retryFill"
    /\ Await("fill", "phone", formattedPhone, "email.$")
    /\ UNCHANGED <<handlerVars, slotVars, concurrentVars, engineRest>>

EmailQuery ==
    /\ pc = "email.$"
    /\ Query("email", IF Falsy(patientData.email) THEN "date.$" ELSE "email.fill",
             "date.$")
    /\ UNCHANGED <<handlerVars, slotVars, concurrentVars, engineRest>>

EmailFill ==
    /\ pc = "email.fill"
    /\ Await("fill", "email", patientData.email, "date.$")
    /\ UNCHANGED <<handlerVars, slotVars, concurrentVars, engineRest>>

DateQuery ==
    /\ pc = "date.$"
    /\ Query("date", "date.fill", "timeSlots.$$")
    /\ UNCHANGED <<handlerVars, slotVars, concurrentVars, engineRest>>

\* The date filled before the email
DateFill_ThenEmail ==
    /\ pc = "date.fill"
    /\ Await("fill", "date", patientData.date, "email.$")
    /\ UNCHANGED <<handlerVars, slotVars, concurrentVars, engineRest>>

DateFill ==
    /\ pc = "date.fill"
    /\ Await("fill", "date", patientData.date, "timeSlots.$$")
    /\ UNCHANGED <<handlerVars, slotVars, concurrentVars, engineRest>>

(* The time-slot scan *)

\* The visible texts of the elements page.$$ may return, in page order;
\* textContent() of an element is a string or null.
ButtonLists ==
    { <<>>,
      << <<"0","9",":","3","0">>, <<"1","0",":","0","0"," ","A","M">>,
         <<"1","0",":","0","0">> >>,
      << Null, <<"1","1",":","0","0">> >> }

\* Where the for..of loop stands once it moves past position i
AfterButton(buttons, i) ==
    IF i < Len(buttons) THEN "slot.textContent" ELSE "submit.$"

TimeSlotsQuery ==
    /\ pc = "timeSlots.$$"
    /\ \/ \E buttons \in ButtonLists :
            /\ ops' = Append(ops, EntryAt("$$", "timeSlots", Len(buttons), <<>>, TRUE, <<>>))
            /\ timeSlotButtons' = buttons
            /\ btnIdx' = 1
            /\ pc' = AfterButton(buttons, 0)
            /\ UNCHANGED result
       \/ /\ ops' = Append(ops, Entry("$$", "timeSlots", <<>>, FALSE, <<>>))
          /\ result' = ErrorOutcome(ErrorMessage("$$", "timeSlots"))
          /\ pc' = "finally"
          /\ UNCHANGED <<timeSlotButtons, btnIdx>>
    /\ UNCHANGED <<handlerVars, slotVars, concurrentVars, browser, patientData, normalizedPhone,
                   formattedPhone, enteredPhone, pageText, thrown>>

SlotTextContent ==
    /\ pc = "slot.textContent"
    /\ \/ LET buttonText == timeSlotButtons[btnIdx]
          IN  /\ ops' = Append(ops, EntryAt("textContent", "timeSlot", btnIdx,
                                            <<>>, TRUE, buttonText))
              /\ IF ~Falsy(buttonText) /\ Includes(buttonText, patientData.time)
                 THEN pc' = "slot.click" /\ UNCHANGED btnIdx
                 ELSE /\ pc' = AfterButton(timeSlotButtons, btnIdx)
                      /\ btnIdx' = btnIdx + 1
              /\ UNCHANGED result
       \/ /\ ops' = Append(ops, EntryAt("textContent", "timeSlot", btnIdx,
                                        <<>>, FALSE, <<>>))
          /\ result' = ErrorOutcome(ErrorMessage("textContent", "timeSlot"))
          /\ pc' = "finally"
          /\ UNCHANGED btnIdx
    /\ UNCHANGED <<handlerVars, slotVars, concurrentVars, browser, patientData, normalizedPhone,
                   formattedPhone, enteredPhone, timeSlotButtons, pageText, thrown>>

\* The loop without its `break`: it goes on to the next element
SlotClick_NoBreak ==
    /\ pc = "slot.click"
    /\ \E ok \in BOOLEAN :
        /\ ops' = Append(ops, EntryAt("click", "timeSlot", btnIdx, <<>>, ok, <<>>))
        /\ IF ok
           THEN /\ pc' = AfterButton(timeSlotButtons, btnIdx)
                /\ btnIdx' = btnIdx + 1
                /\ UNCHANGED result
           ELSE /\ pc' = "finally"
                /\ result' = ErrorOutcome(ErrorMessage("click", "timeSlot"))
                /\ UNCHANGED btnIdx
    /\ UNCHANGED <<handlerVars, slotVars, concurrentVars, browser, patientData,
                   normalizedPhone, formattedPhone, enteredPhone, timeSlotButtons,
                   pageText, thrown>>

SlotClick ==
    /\ pc = "slot.click"
    /\ \E ok \in BOOLEAN :
        /\ ops' = Append(ops, EntryAt("click", "timeSlot", btnIdx, <<>>, ok, <<>>))
        /\ IF ok
           THEN pc' = "submit.$" /\ UNCHANGED result
           ELSE pc' = "finally" /\ result' = ErrorOutcome(ErrorMessage("click", "timeSlot"))
    /\ UNCHANGED <<handlerVars, slotVars, concurrentVars, engineRest>>

SubmitQuery ==
    /\ pc = "submit.$"
    /\ Query("submit", "submit.click", "content")
    /\ UNCHANGED <<handlerVars, slotVars, concurrentVars, engineRest>>

SubmitClick ==
    /\ pc = "submit.click"
    /\ Await("click", "submit", <<>>, "content")
    /\ UNCHANGED <<handlerVars, slotVars, concurrentVars, engineRest>>

(* Reading the page, classifying it, and the teardown *)

\* What page.textContent() may resolve to in the booking flow: a string or null
BookingPageTexts ==
    {
      <<"c","o","n","f","i","r","m","a","t","i","o","n"," ","#","A","B","C","-","1","2","3">>,
      <<"B","o","o","k","i","n","g"," ","c","o","n","f","i","r","m","e","d">>,
      <<"F","o","r","m"," ","e","r","r","o","r",":"," ","p","h","o","n","e"," ",
        "f","a","i","l","e","d"," ","v","a","l","i","d","a","t","i","o","n">>,
      <<"P","l","e","a","s","e"," ","w","a","i","t">>,
      <<"Y","o","u","r"," ","r","e","f","e","r","e","n","c","e",":"," ","R","-","7">>,
      <<"r","e","f","e","r","e","n","c","e",":"," ","X","1"," ","f","a","i","l","e","d">>,
      Null }

PageContent ==
    /\ pc = "content"
    /\ Await("content", "page", <<>>, "textContent")
    /\ UNCHANGED <<handlerVars, slotVars, concurrentVars, engineRest>>

PageTextContent ==
    /\ pc = "textContent"
    /\ \/ \E text \in BookingPageTexts :
            /\ ops' = Append(ops, Entry("textContent", "page", <<>>, TRUE, text))
            /\ pageText' = text
            /\ pc' = "classify"
            /\ UNCHANGED result
       \/ /\ ops' = Append(ops, Entry("textContent", "page", <<>>, FALSE, <<>>))
          /\ result' = ErrorOutcome(ErrorMessage("textContent", "page"))
          /\ pc' = "finally"
          /\ UNCHANGED pageText
    /\ UNCHANGED <<handlerVars, slotVars, concurrentVars, browser, patientData, normalizedPhone,
                   formattedPhone, enteredPhone, timeSlotButtons, btnIdx, thrown>>

\* A truncated phone reported as a failed booking
Classify_TruncationFails ==
    /\ pc = "classify"
    /\ result' = IF pageText = Null \/ TruncationDetected(enteredPhone, normalizedPhone)
                 THEN ErrorOutcome(<<"Cannot read properties of null (reading 'substring')">>)
                 ELSE classify(pageText)
    /\ pc' = "finally"
    /\ UNCHANGED <<handlerVars, slotVars, concurrentVars, engineRest, ops>>

\* Lines 235-260: pageText.substring throws a TypeError on null, which the
\* catch block turns into an outcome; else the classified result is returned.
Classify ==
    /\ pc = "classify"
    /\ result' = IF pageText = Null
                 THEN ErrorOutcome(<<"Cannot read properties of null (reading 'substring')">>)
                 ELSE classify(pageText)
    /\ pc' = "finally"
    /\ UNCHANGED <<handlerVars, slotVars, concurrentVars, engineRest, ops>>

Finally_OnlyAfterSuccess ==
    /\ pc = "finally"
    /\ IF browser = "undefined" \/ ~result.success
       THEN /\ pc' = "returned"
            /\ UNCHANGED <<browser, ops, result, thrown>>
       ELSE \E ok \in BOOLEAN :
            /\ ops' = Append(ops, Entry("close", "browser", <<>>, ok, <<>>))
            /\ IF ok
               THEN /\ browser' = "closed"
                    /\ pc' = "returned"
                    /\ UNCHANGED <<result, thrown>>
               ELSE /\ browser' = "closeFailed"
                    /\ thrown' = ErrorMessage("close", "browser")
                    /\ result' = NoResult
                    /\ pc' = "threw"
    /\ UNCHANGED <<handlerVars, slotVars, concurrentVars, patientData, normalizedPhone,
                   formattedPhone, enteredPhone, timeSlotButtons, btnIdx, pageText>>

\* finally { if (browser) await browser.close() }: a rejection of close()
\* replaces the value being returned and leaves bookAppointment as a throw.
Finally ==
    /\ pc = "finally"
    /\ IF browser = "undefined"
       THEN /\ pc' = "returned"
            /\ UNCHANGED <<browser, ops, result, thrown>>
       ELSE \E ok \in BOOLEAN :
            /\ ops' = Append(ops, Entry("close", "browser", <<>>, ok, <<>>))
            /\ IF ok
               THEN /\ browser' = "closed"
                    /\ pc' = "returned"
                    /\ UNCHANGED <<result, thrown>>
               ELSE /\ browser' = "closeFailed"
                    /\ thrown' = ErrorMessage("close", "browser")
                    /\ result' = NoResult
                    /\ pc' = "threw"
    /\ UNCHANGED <<handlerVars, slotVars, concurrentVars, patientData, normalizedPhone,
                   formattedPhone, enteredPhone, timeSlotButtons, btnIdx, pageText>>

-----------------------------------------------------------------------------
(* POST /book-appointment *)

\* v.field, undefined when v has no such property
Get(v, field) == IF field \in DOMAIN v THEN v[field] ELSE Undefined

MissingRequired(body) ==
    \/ Falsy(body.firstName)
    \/ Falsy(body.lastName)
    \/ Falsy(body.phone)
    \/ Falsy(body.date)
    \/ Falsy(body.time)

BookAppointmentValidate ==
    /\ hpc = "book-appointment"
    /\ IF MissingRequired(req)
       THEN /\ res' = [status |-> 400,
                       body |-> [error |-> <<"Missing required fields">>,
                                 required |-> <<"firstName", "lastName", "phone",
                                                "date", "time">>]]
            /\ hpc' = "done"
            /\ UNCHANGED <<pc, patientData>>
       ELSE /\ patientData' =
                  [firstName |-> req.firstName,
                   lastName |-> req.lastName,
                   phone |-> normalizePhone(req.phone),
                   email |-> req.email,
                   date |-> req.date,
                   time |-> req.time,
                   appointmentType |-> OrElse(req.appointmentType, EmergencyExam)]
            /\ pc' = "start"
            /\ hpc' = "await-bookAppointment"
            /\ UNCHANGED res
    /\ UNCHANGED <<req, slotVars, concurrentVars, browser, normalizedPhone, formattedPhone,
                   enteredPhone, timeSlotButtons, btnIdx, pageText, result,
                   thrown, ops>>

BookAppointmentRespond ==
    /\ hpc = "await-bookAppointment"
    /\ pc \in {"returned", "threw"}
    /\ IF pc = "returned"
       THEN res' = [status |-> 200,
                    body |-> [success |-> result.success,
                              confirmationNumber |-> Get(result, "confirmationNumber"),
                              message |-> result.message,
                              patient |-> [name |-> req.firstName \o <<" ">> \o req.lastName,
                                           phone |-> formatPhone(req.phone),
                                           appointment |-> req.date \o <<" ", "a", "t", " ">>
                                                           \o req.time]]]
       ELSE res' = [status |-> 500, body |-> [error |-> thrown]]
    /\ hpc' = "done"
    /\ UNCHANGED <<req, engineVars, slotVars, concurrentVars>>

TestPhone == <<"4","8","0","5","5","5","1","2","3","4">>
TestEmail == <<"t","e","s","t","@","e","x","a","m","p","l","e",".","c","o","m">>

\* Request bodies with each field there or not, around the body testBooking sends
PresenceRequests ==
    [firstName : {Undefined, <<"T","e","s","t">>},
     lastName : {<<>>, <<"P","a","t","i","e","n","t">>},
     phone : {Undefined, TestPhone},
     email : {Undefined, TestEmail},
     date : {Undefined, <<"2","0","2","6","-","0","2","-","2","4">>},
     time : {<<>>, <<"1","0",":","0","0">>},
     appointmentType : {EmergencyExam}]

\* Complete request bodies with other phones
PhoneRequests ==
    { [firstName |-> <<"T","e","s","t">>,
       lastName |-> <<"P","a","t","i","e","n","t">>,
       phone |-> p[1], email |-> p[2],
       date |-> <<"2","0","2","6","-","0","2","-","2","4">>,
       time |-> <<"1","0",":","0","0">>,
       appointmentType |-> p[3]] :
      p \in { << <<"1","-","4","8","0","-","5","5","5","-","1","2","3","4">>,
                 Undefined, Cleaning >>,
              << <<"5","5","5","-","0","1","-","2","3">>, TestEmail, Undefined >>,
              << <<"n","/","a">>, Undefined, Undefined >>,
              << <<"1","1","2","3","4","5","6","7","8","9","0">>, TestEmail, Cleaning >> } }

BookingRequests == PresenceRequests \cup PhoneRequests

Init ==
    /\ req \in BookingRequests
    /\ hpc = "book-appointment"
    /\ res = NoResponse
    /\ EngineIdle
    /\ SlotsIdle
    /\ ConcurrentIdle

Next ==
    \/ BookAppointmentValidate
    \/ BookStart
    \/ Launch
    \/ NewContext
    \/ NewPage
    \/ Goto
    \/ WaitForLoadState
    \/ TypeSelectQuery
    \/ SelectOption
    \/ FirstNameQuery
    \/ FirstNameFill
    \/ LastNameQuery
    \/ LastNameFill
    \/ PhoneQuery
    \/ PhoneClear
    \/ PhoneFill
    \/ PhoneInputValue
    \/ PhoneRetryClear
    \/ PhoneRetryFill
    \/ EmailQuery
    \/ EmailFill
    \/ DateQuery
    \/ DateFill
    \/ TimeSlotsQuery
    \/ SlotTextContent
    \/ SlotClick
    \/ SubmitQuery
    \/ SubmitClick
    \/ PageContent
    \/ PageTextContent
    \/ Classify
    \/ Finally
    \/ BookAppointmentRespond

Spec == Init /\ [][Next]_vars

-----------------------------------------------------------------------------
(* Observations on the calls made *)

\* How many times browser.close was called, and how many calls were rejected
CloseCalls == Cardinality({ i \in DOMAIN ops : ops[i].op = "close" })
FailedCalls == Cardinality({ i \in DOMAIN ops : ~ops[i].ok })
LaunchResolved == \E i \in DOMAIN ops : ops[i].op = "launch" /\ ops[i].ok
AttemptOver == pc \in {"returned", "threw"}

\* The writes and read-backs of the phone field, in order
PhoneCalls == SelectSeq(ops, LAMBDA e : e.target = "phone" /\ e.op \in {"fill", "inputValue"})
\* The phone step is behind: the email control has been looked up
PhoneStepOver == \E i \in DOMAIN ops : ops[i].op = "$" /\ ops[i].target = "email"
\* "(AAA) BBB-CCCC"
IsPunctuated(s) ==
    /\ Len(s) = 14
    /\ s[1] = "(" /\ s[5] = ")" /\ s[6] = " " /\ s[10] = "-"
    /\ \A i \in {2, 3, 4, 7, 8, 9, 11, 12, 13, 14} : IsDigit(s[i])

-----------------------------------------------------------------------------
(* Claims *)

\* C1, as stated: whatever step fails, launch included, and also when none
\* fails, a finished booking attempt has called browser.close exactly once.
C1_CloseExactlyOnceAlways == AttemptOver => CloseCalls = 1

\* C1, amended: browser.close is never called twice; a finished attempt has
\* called it exactly once when the launch resolved (whatever later step failed,
\* or none) and not at all when the launch itself failed.
C1_CloseOncePerLaunchedSession ==
    /\ CloseCalls <= 1
    /\ AttemptOver => CloseCalls = (IF LaunchResolved THEN 1 ELSE 0)

\* C1 witness: an attempt whose navigation failed is over, close called once.
C1_Witness ==
    /\ AttemptOver
    /\ \E i \in DOMAIN ops : ops[i].op = "goto" /\ ~ops[i].ok
    /\ CloseCalls = 1

\* C2: bookAppointment never throws to its caller; an attempt in which a call
\* failed (launch, any later step, or the teardown) returns an outcome with
\* success = false and a message "Booking error: <details>".
C2_FaultsBecomeOutcomes ==
    /\ pc # "threw"
    /\ (pc = "returned" /\ FailedCalls > 0) =>
          /\ result.success = FALSE
          /\ StartsWith(result.message, <<"Booking error: ">>)

C4_ClassifierTieBreak ==
    pc = "classified" =>
        LET positive == \E t \in {Confirmation, Confirmed, Success} : Includes(pageText, t)
            negative == \E t \in {ErrorToken, Failed} : Includes(pageText, t)
        IN  /\ positive => result.success = TRUE
            /\ (negative /\ ~positive) =>
                  /\ result.success = FALSE
                  /\ result.message = <<"Booking failed - form validation error">>
            /\ (~negative /\ ~positive) =>
                  /\ result.success = TRUE
                  /\ result.message = <<"Form submitted - please verify in MaxAssist">>

\* C4 witness: a text with both a positive and a negative token was classified
\* as a success.
C4_Witness ==
    /\ pc = "classified"
    /\ Includes(pageText, Confirmed)
    /\ Includes(pageText, ErrorToken)
    /\ result.success = TRUE

\* C5: a /book-appointment request missing one of firstName, lastName, phone,
\* date, time is answered 400 and no browser call is ever made for it; every
\* other request is answered 200 with success and message, whatever call
\* failed in the automation (launch, navigation, interaction, teardown).
C5_AlwaysStructuredOutcome ==
    hpc = "done" =>
        IF \E f \in {"firstName", "lastName", "phone", "date", "time"} : Falsy(req[f])
        THEN res.status = 400 /\ ops = <<>>
        ELSE /\ res.status = 200
             /\ res.body.success \in BOOLEAN
             /\ Len(res.body.message) > 0

\* C6: in the request handed to bookAppointment, firstName, lastName, phone,
\* date and time are all non-empty.
C6_RequiredFieldsNonEmpty ==
    pc # "idle" =>
        \A f \in {"firstName", "lastName", "phone", "date", "time"} :
            ~Falsy(patientData[f])

\* C7: when the remote availability call fails (timeout, non-2xx, network
\* error), getTimeSlots returns the ten fallback slots 09:00 .. 16:00, all
\* available, whatever the date, and the handler answers with them: nothing
\* was thrown.
C7_FallbackSlots ==
    (hpc \in {"respond-availability", "done"} /\ remote.kind \in {"timeout", "non2xx", "network"}) =>
        /\ Len(slots) = 10
        /\ [i \in 1..10 |-> slots[i].time] =
              <<"09:00", "09:30", "10:00", "10:30", "11:00",
                "14:00", "14:30", "15:00", "15:30", "16:00">>
        /\ \A i \in 1..10 : slots[i].available = TRUE
        /\ hpc = "done" => res.status = 200 /\ res.body.count = 10

\* C7 witness: the remote call timed out and the handler answered 200 with
\* ten slots.
C7_Witness ==
    /\ hpc = "done"
    /\ remote.kind = "timeout"
    /\ res.status = 200
    /\ res.body.count = 10

\* C8: for a phone with at least 10 digits normalizePhone returns exactly the
\* rightmost 10 digits of the stripped form; for one with fewer than 10 digits
\* it returns the stripped digits, nothing added.
C8_NormalizeRightmostTen ==
    hpc = "done" =>
        LET digits == StripNonDigits(req.phone)
            out == res.body.normalized
        IN  IF Len(digits) >= 10
            THEN /\ Len(out) = 10
                 /\ \A i \in 1..10 : out[i] = digits[Len(digits) - 10 + i]
            ELSE out = digits

\* C8 witness: a phone of more than 11 digits was normalized to 10 digits.
C8_Witness ==
    /\ hpc = "done"
    /\ Len(StripNonDigits(req.phone)) > 11
    /\ Len(res.body.normalized) = 10

\* C9: formatPhone returns "(AAA) BBB-CCCC" over the canonical digits when the
\* canonical phone has exactly 10 digits, and the raw input as it came
\* otherwise.
C9_FormatPhone ==
    hpc = "done" =>
        LET canonical == res.body.normalized
            formatted == res.body.formatted
        IN  IF Len(canonical) = 10
            THEN IsPunctuated(formatted) /\ StripNonDigits(formatted) = canonical
            ELSE formatted = req.phone

\* C9 witness: a raw input with punctuation and fewer than 10 digits came back
\* as it was, not as its digits.
C9_Witness ==
    /\ hpc = "done"
    /\ Len(res.body.normalized) < 10
    /\ res.body.formatted = req.phone
    /\ req.phone # res.body.normalized
    /\ Len(res.body.normalized) > 0

\* A string of exactly 10 digits
IsCleanTenDigits(s) == Len(s) = 10 /\ \A i \in 1..10 : IsDigit(s[i])

\* C10: normalizePhone is the identity on a clean 10-digit string and
\* normalizePhone(normalizePhone(x)) = normalizePhone(x), for every raw phone
\* (stated where bookAppointment starts); so the canonical phone bookAppointment
\* computes from the handler's normalized phone is normalizePhone of the raw
\* phone of the request.
C10_NormalizeIdempotent ==
    /\ pc = "start" =>
          \A x \in RawPhones :
              /\ normalizePhone(normalizePhone(x)) = normalizePhone(x)
              /\ IsCleanTenDigits(x) => normalizePhone(x) = x
    /\ pc \notin {"idle", "start"} => normalizedPhone = normalizePhone(req.phone)

\* C10 witness: the raw phone needed normalizing, the handler passed its
\* canonical form on, and bookAppointment normalized that form once more.
C10_Witness ==
    /\ pc = "launch"
    /\ req.phone # patientData.phone
    /\ Len(patientData.phone) = 10
    /\ normalizedPhone = patientData.phone

\* Whether page text was read as a string and classified in this attempt
PageClassified ==
    /\ AttemptOver
    /\ pageText # Null
    /\ \E i \in DOMAIN ops : ops[i].op = "textContent" /\ ops[i].target = "page" /\ ops[i].ok

\* At 0-based position i of text stands a label ("confirmation", "conf#",
\* "reference", in any case), then characters among ':', '#' and white space,
\* then at 1-based position k the first character of a code
CodeStartsAt(text, i, k) ==
    \E l \in ConfirmationLabels :
        /\ i + Len(l) < k /\ k <= Len(text)
        /\ ToLowerCase(SubSeq(text, i + 1, i + Len(l))) = l
        /\ \A q \in (i + Len(l) + 1)..(k - 1) : IsSeparator(text[q])
        /\ IsCodeChar(text[k])
LabelWithCodeAt(text, i) == \E k \in 1..Len(text) : CodeStartsAt(text, i, k)
HasLabelWithCode(text) == \E i \in 0..Len(text) : LabelWithCodeAt(text, i)
\* c is the code after the label at i: the whole run of letters, digits and dashes
IsCodeAt(text, i, c) ==
    \E k \in 1..Len(text) :
        /\ CodeStartsAt(text, i, k)
        /\ k + Len(c) - 1 <= Len(text)
        /\ SubSeq(text, k, k + Len(c) - 1) = c
        /\ \A q \in k..(k + Len(c) - 1) : IsCodeChar(text[q])
        /\ k + Len(c) > Len(text) \/ ~IsCodeChar(text[k + Len(c)])
HasPositiveToken(text) ==
    \E t \in {Confirmation, Confirmed, Success} : Includes(text, t)

\* What C11, amended, says of the success flag and confirmation number c
\* classified from text
ExtractionAsAmended(text, success, c) ==
    IF HasPositiveToken(text)
    THEN /\ success = TRUE
         /\ IF HasLabelWithCode(text)
            THEN \E i \in 0..Len(text) :
                    /\ IsCodeAt(text, i, c)
                    /\ \A j \in 0..(i - 1) : ~LabelWithCodeAt(text, j)
            ELSE c = Null
    ELSE c = Null

\* C11, as stated: when page text with a label followed by a code was
\* classified and the response is a 200, the response has success = true and
\* the code as confirmationNumber; when the page is positive and no label with
\* code is there, confirmationNumber is unset.
C11_LabelAndCodeYieldNumber ==
    (hpc = "done" /\ PageClassified /\ res.status = 200) =>
        IF HasLabelWithCode(pageText)
        THEN /\ res.body.success = TRUE
             /\ \E i \in 0..Len(pageText) : IsCodeAt(pageText, i, res.body.confirmationNumber)
        ELSE HasPositiveToken(pageText) => res.body.confirmationNumber = Null

\* C11, amended: a confirmation number is extracted only from a page with a
\* positive token ("confirmation", "confirmed", "success"): such a page gives
\* success = true and, as confirmationNumber, the code after its leftmost label
\* with a code, or none when it has no label with a code; a page without a
\* positive token gives no confirmationNumber even if it has a label with a
\* code.  The /book-appointment response carries success and confirmationNumber
\* as classified, except that it is a 500 when the teardown threw.
C11_NumberOnlyFromPositivePage ==
    /\ pc = "start" =>
          \A t \in PageTexts :
              ExtractionAsAmended(t, classify(t).success, classify(t).confirmationNumber)
    /\ (hpc = "done" /\ PageClassified) =>
          IF pc = "threw"
          THEN res.status = 500
          ELSE /\ res.status = 200
               /\ ExtractionAsAmended(pageText, res.body.success,
                                      res.body.confirmationNumber)

\* C11 witness: the page read "confirmation #ABC-123" and the response carries
\* success = true and confirmationNumber "ABC-123".
C11_Witness ==
    /\ hpc = "done"
    /\ res.status = 200
    /\ pageText = <<"c","o","n","f","i","r","m","a","t","i","o","n"," ","#",
                    "A","B","C","-","1","2","3">>
    /\ res.body.success = TRUE
    /\ res.body.confirmationNumber = <<"A","B","C","-","1","2","3">>

-----------------------------------------------------------------------------
(* Several POST /book-appointment requests in flight together.  Node runs    *)
(* one handler at a time and switches between them at an await, so a step    *)
(* here is the stretch of one invocation up to its next awaited browser call.*)
(* The awaited calls on the invocation's own page (newPage up to             *)
(* page.content, lines 138-232) are one step: they touch nothing but the     *)
(* page, and Spec follows them one by one.                                   *)

MaxRequests == 2
Requests == 1..MaxRequests

\* The body testBooking sends, with its phone there or not
ConcurrentBodies ==
    { b \in PresenceRequests :
        /\ ~Falsy(b.firstName) /\ ~Falsy(b.lastName) /\ ~Falsy(b.email)
        /\ ~Falsy(b.date) /\ ~Falsy(b.time) }

\* What the page of one invocation may show after the submit
ConcurrentPageTexts ==
    { <<"c","o","n","f","i","r","m","a","t","i","o","n"," ","#","A","B","C","-","1","2","3">>,
      <<"F","o","r","m"," ","e","r","r","o","r",":"," ","p","h","o","n","e"," ",
        "f","a","i","l","e","d"," ","v","a","l","i","d","a","t","i","o","n">> }

NoSession == 0

NewAttempt(body) ==
    [body |-> body, hpc |-> "book-appointment", pc |-> "idle",
     browser |-> NoSession, pageText |-> <<>>, fault |-> "",
     result |-> NoResult, thrown |-> NoError, res |-> NoResponse]

NewSession(i) ==
    [owner |-> i, status |-> "open", callers |-> {}, closeCalls |-> 0,
     closeRejected |-> FALSE]

\* `browser` declared outside bookAppointment: every invocation sees the
\* session launched last
BrowserOf_ModuleScope(i) == Len(sessions)

\* `browser` as invocation i sees it: `let browser` is local to the call
BrowserOf(i) == attempts[i].browser

\* Invocation i makes a call on session s
CallOn(s, i) == [sessions EXCEPT ![s].callers = @ \cup {i}]

AttemptFails(i, op, target) ==
    attempts' = [attempts EXCEPT ![i].fault = op,
                                 ![i].result = ErrorOutcome(ErrorMessage(op, target)),
                                 ![i].pc = "finally"]

AttemptValidate(i) ==
    /\ attempts[i].hpc = "book-appointment"
    /\ IF MissingRequired(attempts[i].body)
       THEN attempts' = [attempts EXCEPT
                ![i].res = [status |-> 400,
                            body |-> [error |-> <<"Missing required fields">>,
                                      required |-> <<"firstName", "lastName", "phone",
                                                     "date", "time">>]],
                ![i].hpc = "done"]
       ELSE attempts' = [attempts EXCEPT ![i].pc = "launch",
                                         ![i].hpc = "await-bookAppointment"]
    /\ UNCHANGED <<handlerVars, engineVars, slotVars, sessions>>

AttemptLaunch(i) ==
    /\ attempts[i].pc = "launch"
    /\ \E ok \in BOOLEAN :
          IF ok
          THEN /\ sessions' = Append(sessions, NewSession(i))
               /\ attempts' = [attempts EXCEPT ![i].browser = Len(sessions) + 1,
                                               ![i].pc = "newContext"]
          ELSE /\ AttemptFails(i, "launch", "chromium")
               /\ UNCHANGED sessions
    /\ UNCHANGED <<handlerVars, engineVars, slotVars>>

AttemptNewContext(i) ==
    /\ attempts[i].pc = "newContext"
    /\ sessions' = CallOn(BrowserOf(i), i)
    /\ \E ok \in BOOLEAN :
          IF ok
          THEN attempts' = [attempts EXCEPT ![i].pc = "page"]
          ELSE AttemptFails(i, "newContext", "browser")
    /\ UNCHANGED <<handlerVars, engineVars, slotVars>>

AttemptPage(i) ==
    /\ attempts[i].pc = "page"
    /\ sessions' = CallOn(BrowserOf(i), i)
    /\ \E ok \in BOOLEAN :
          IF ok
          THEN attempts' = [attempts EXCEPT ![i].pc = "textContent"]
          ELSE AttemptFails(i, "goto", "page")
    /\ UNCHANGED <<handlerVars, engineVars, slotVars>>

AttemptClassify(i) ==
    /\ attempts[i].pc = "textContent"
    /\ sessions' = CallOn(BrowserOf(i), i)
    /\ \/ \E text \in ConcurrentPageTexts :
             attempts' = [attempts EXCEPT ![i].pageText = text,
                                          ![i].result = classify(text),
                                          ![i].pc = "finally"]
       \/ AttemptFails(i, "textContent", "page")
    /\ UNCHANGED <<handlerVars, engineVars, slotVars>>

\* A rejected close() tells nothing about the session: it may be gone or not
AttemptFinally(i) ==
    /\ attempts[i].pc = "finally"
    /\ IF BrowserOf(i) = NoSession
       THEN /\ attempts' = [attempts EXCEPT ![i].pc = "returned"]
            /\ UNCHANGED sessions
       ELSE LET s == BrowserOf(i)
            IN  \E ok \in BOOLEAN :
                \E left \in (IF ok THEN {"closed"} ELSE {"open", "closed"}) :
                   /\ sessions' = [CallOn(s, i) EXCEPT
                                      ![s].closeCalls = @ + 1,
                                      ![s].closeRejected = @ \/ ~ok,
                                      ![s].status = IF @ = "open" THEN left ELSE @]
                   /\ IF ok
                      THEN attempts' = [attempts EXCEPT ![i].pc = "returned"]
                      ELSE attempts' = [attempts EXCEPT
                               ![i].fault = "close",
                               ![i].thrown = ErrorMessage("close", "browser"),
                               ![i].result = NoResult,
                               ![i].pc = "threw"]
    /\ UNCHANGED <<handlerVars, engineVars, slotVars>>

AttemptResponse(body, outcome) ==
    [status |-> 200,
     body |-> [success |-> outcome.success,
               confirmationNumber |-> Get(outcome, "confirmationNumber"),
               message |-> outcome.message,
               patient |-> [name |-> body.firstName \o <<" ">> \o body.lastName,
                            phone |-> formatPhone(body.phone),
                            appointment |-> body.date \o <<" ", "a", "t", " ">>
                                            \o body.time]]]

AttemptRespond(i) ==
    /\ attempts[i].hpc = "await-bookAppointment"
    /\ attempts[i].pc \in {"returned", "threw"}
    /\ attempts' = [attempts EXCEPT
          ![i].res = IF attempts[i].pc = "returned"
                     THEN AttemptResponse(attempts[i].body, attempts[i].result)
                     ELSE [status |-> 500, body |-> [error |-> attempts[i].thrown]],
          ![i].hpc = "done"]
    /\ UNCHANGED <<handlerVars, engineVars, slotVars, sessions>>

InitConcurrent ==
    /\ req = <<>>
    /\ hpc = "concurrent"
    /\ res = NoResponse
    /\ EngineIdle
    /\ SlotsIdle
    /\ attempts \in [Requests -> {NewAttempt(b) : b \in ConcurrentBodies}]
    /\ sessions = <<>>

NextConcurrent ==
    \/ \E i \in Requests : AttemptValidate(i)
    \/ \E i \in Requests : AttemptLaunch(i)
    \/ \E i \in Requests : AttemptNewContext(i)
    \/ \E i \in Requests : AttemptPage(i)
    \/ \E i \in Requests : AttemptClassify(i)
    \/ \E i \in Requests : AttemptFinally(i)
    \/ \E i \in Requests : AttemptRespond(i)

SpecConcurrent == InitConcurrent /\ [][NextConcurrent]_vars

InFlight == { i \in Requests : attempts[i].hpc # "done" }
OpenSessions == { s \in DOMAIN sessions : sessions[s].status = "open" }
LaunchedBy(i) == { s \in DOMAIN sessions : sessions[s].owner = i }
AllReturned == \A i \in Requests : attempts[i].hpc = "done"

\* Each request launches at most one session, and a session is called, and
\* closed, by nobody but the request that launched it
OwnSessionOnly ==
    /\ \A i \in Requests : Cardinality(LaunchedBy(i)) <= 1
    /\ \A i \in Requests : attempts[i].browser \in LaunchedBy(i) \cup {NoSession}
    /\ \A s \in DOMAIN sessions : sessions[s].callers \subseteq {sessions[s].owner}

\* Two requests with the same fields, the same page text and the same rejected
\* call have the same response
OutcomeFromOwnInputs ==
    \A i, j \in Requests :
       ( /\ attempts[i].hpc = "done" /\ attempts[j].hpc = "done"
         /\ attempts[i].body = attempts[j].body
         /\ attempts[i].pageText = attempts[j].pageText
         /\ attempts[i].fault = attempts[j].fault )
       => attempts[i].res = attempts[j].res

-----------------------------------------------------------------------------
(* One booking followed through the form: the request testBooking sends,     *)
(* with its optional email and without it                                    *)

FormRequests ==
    { r \in BookingRequests : ~MissingRequired(r) /\ r.phone = TestPhone }

InitForm ==
    /\ req \in FormRequests
    /\ hpc = "book-appointment"
    /\ res = NoResponse
    /\ EngineIdle
    /\ SlotsIdle
    /\ ConcurrentIdle

SpecForm == InitForm /\ [][Next]_vars

-----------------------------------------------------------------------------
(* The order of the steps of one attempt *)

\* The awaits of bookAppointment in program order
Stages ==
    << "start", "launch", "newContext", "newPage", "goto", "waitForLoadState",
       "apptType.$", "apptType.selectOption", "firstName.$", "firstName.fill",
       "lastName.$", "lastName.fill", "phone.$", "phone.clear", "phone.fill",
       "phone.inputValue", "phone.retryClear", "phone.retryFill", "email.$",
       "email.fill", "date.$", "date.fill", "timeSlots.$$", "slot.textContent",
       "slot.click", "submit.$", "submit.click", "content", "textContent",
       "classify", "finally", "returned" >>

StageIndex ==
    [p \in { Stages[k] : k \in DOMAIN Stages } |->
        CHOOSE k \in DOMAIN Stages : Stages[k] = p]

StageOf(p) ==
    CASE p = "idle" -> 0
      [] p = "threw" -> Len(Stages)
      [] OTHER -> StageIndex[p]

\* A step moves forward in the program, or to the next element of the
\* for..of loop over the time-slot elements
Advances ==
    \/ StageOf(pc') > StageOf(pc)
    \/ /\ pc = "slot.textContent" /\ pc' = pc
       /\ btnIdx' = btnIdx + 1
       /\ btnIdx' <= Len(timeSlotButtons)

\* While bookAppointment has not returned or thrown, its next awaited call can
\* resolve or reject (the classification awaits nothing and always runs)
NeverStuck ==
    (pc # "idle" /\ ~AttemptOver) =>
       \/ pc = "classify"
       \/ ENABLED (pc # "classify" /\ Next)

\* fill('') of lines 178 and 190: the first call on the field, and the one
\* right after the read-back
IsPhoneClear(i) ==
    /\ PhoneCalls[i].op = "fill"
    /\ PhoneCalls[i].arg = <<>>
    /\ i = 1 \/ PhoneCalls[i - 1].op = "inputValue"

PhoneWrites == { i \in DOMAIN PhoneCalls : PhoneCalls[i].op = "fill" /\ ~IsPhoneClear(i) }
PhoneReadbacks == { i \in DOMAIN PhoneCalls : PhoneCalls[i].op = "inputValue" }

PhoneWriteBounds ==
    /\ Cardinality(PhoneWrites) <= 2
    /\ Cardinality(PhoneReadbacks) <= 1
    /\ \A i \in PhoneReadbacks :
          (PhoneCalls[i].ok /\ Len(PhoneCalls[i].ret) >= Len(normalizedPhone)) =>
             /\ Cardinality(PhoneWrites) = 1
             /\ Len(PhoneCalls) = i

\* C13: every booking attempt terminates (each awaited browser call resolving
\* or rejecting, bookAppointment returns or throws), and within one attempt
\* the phone field is written with a phone value at most twice and read back
\* at most once; when the read-back is not shorter than the canonical phone
\* the field was written exactly once and nothing more is done to it.
\* Termination is stated on finite runs: until the attempt is over a step is
\* always possible, and every step moves forward in a program with finitely
\* many stages and a loop over a finite list.
C13_TerminatesWithBoundedPhoneWrites ==
    /\ [](PhoneWriteBounds /\ NeverStuck)
    /\ [][pc # "idle" => Advances]_engineVars

\* An attempt is over after a truncated read-back and a second write
C13_Witness ==
    /\ AttemptOver
    /\ Cardinality(PhoneWrites) = 2
    /\ Cardinality(PhoneReadbacks) = 1
    /\ Len(enteredPhone) < Len(normalizedPhone)

-----------------------------------------------------------------------------
(* Navigation failure *)

\* page.goto or page.waitForLoadState rejected (timeout or error)
NavigationFailedAt(i) ==
    /\ ops[i].op \in {"goto", "waitForLoadState"}
    /\ ~ops[i].ok

\* After the navigation error nothing is called but browser.close()
NothingAfterNavigationError ==
    \A i \in DOMAIN ops :
       NavigationFailedAt(i) => \A j \in (i + 1)..Len(ops) : ops[j].op = "close"

\* C14: when navigation to the booking form times out or errors the attempt
\* goes directly to the failure outcome: after the navigation error no field
\* is filled, nothing is clicked and no page text is classified, and the
\* attempt returns success=false with the navigation error message.
C14_NavigationErrorReturned ==
    \A i \in DOMAIN ops :
       NavigationFailedAt(i) =>
          /\ NothingAfterNavigationError
          /\ pageText = <<>>
          /\ pc \in {"finally", "returned"}
          /\ result = ErrorOutcome(ErrorMessage(ops[i].op, "page"))
          /\ hpc = "done" =>
                /\ res.status = 200
                /\ res.body.success = FALSE
                /\ res.body.message = <<"Booking error: ", ops[i].op, "page">>

-----------------------------------------------------------------------------
(* The order of the calls of one attempt *)

StepNames ==
    << "launch", "navigate", "apptType", "firstName", "lastName", "phone",
       "email", "date", "timeSlot", "submit", "classify", "teardown" >>

\* The step a logged call belongs to
StepNameOf(e) ==
    CASE e.op \in {"launch", "newContext", "newPage"} -> "launch"
      [] e.op \in {"goto", "waitForLoadState"} -> "navigate"
      [] e.op = "close" -> "teardown"
      [] e.target = "timeSlots" -> "timeSlot"
      [] e.target = "page" -> "classify"
      [] OTHER -> e.target

StepIndex ==
    [s \in { StepNames[k] : k \in DOMAIN StepNames } |->
        CHOOSE k \in DOMAIN StepNames : StepNames[k] = s]

StepOf(e) == StepIndex[StepNameOf(e)]

SameCall(a, b) == a.op = b.op /\ a.target = b.target /\ a.index = b.index

\* The page text has been classified into the outcome
Classified == "rawResult" \in DOMAIN result

\* The newest call against every earlier one: it belongs to the same step or
\* a later one, it repeats no earlier call unless it is a write of the phone
\* field, and it writes no field once the submit control was clicked
NewestCallInOrder ==
    LET n == Len(ops)
        step == StepOf(ops[n])
    IN  \A i \in 1..(n - 1) :
           /\ StepOf(ops[i]) <= step
           /\ SameCall(ops[i], ops[n]) =>
                 ops[n].target = "phone" /\ ops[n].op = "fill"
           /\ (ops[i].op = "click" /\ ops[i].target = "submit") =>
                 ops[n].op \notin {"fill", "selectOption"}

\* C15: within one attempt the calls come in the order launch, navigate,
\* appointment type, first name, last name, phone, email, date, time slot,
\* submit, classify, teardown; no call is made twice except the writes of the
\* phone field; no field is filled after the submit click; the page text is
\* read and classified only after the submit control was looked up, and the
\* session is closed only after that.  The log of calls grows by one call at
\* its end, so holding for the newest call in every state is holding for
\* every pair of calls.
C15_StepsInOrder ==
    /\ ops # <<>> => NewestCallInOrder
    /\ (Classified \/ pc = "classify") =>
          \E i, j \in DOMAIN ops :
             /\ i < j
             /\ ops[i].op = "$" /\ ops[i].target = "submit"
             /\ ops[j].op = "textContent" /\ ops[j].target = "page"
    /\ \A i \in DOMAIN ops :
          ops[i].op = "close" => i = Len(ops) /\ AttemptOver

\* A whole attempt: every control found, the phone written twice, a time slot
\* and the submit control clicked, the page classified, the session closed
C15_Witness ==
    /\ pc = "returned"
    /\ Classified
    /\ Cardinality(PhoneWrites) = 2
    /\ \A t \in {"apptType", "firstName", "lastName", "email", "date"} :
          \E i \in DOMAIN ops : ops[i].target = t /\ ops[i].op # "$" /\ ops[i].ok
    /\ \E i \in DOMAIN ops : ops[i].op = "click" /\ ops[i].target = "timeSlot"
    /\ \E i \in DOMAIN ops : ops[i].op = "click" /\ ops[i].target = "submit"
    /\ \E i \in DOMAIN ops : ops[i].op = "close" /\ ops[i].ok

-----------------------------------------------------------------------------
(* Absent form controls *)

FormControls ==
    {"apptType", "firstName", "lastName", "phone", "email", "date", "submit"}

\* page.$ resolved to null for the control
IsAbsent(t) ==
    \E i \in DOMAIN ops : ops[i].op = "$" /\ ops[i].target = t /\ ops[i].ret = <<"null">>

\* page.$$ resolved to an empty list
NoTimeSlotElements ==
    \E i \in DOMAIN ops : ops[i].op = "$$" /\ ops[i].ok /\ ops[i].index = 0

\* The lookups of all the controls, in program order
ControlLookups ==
    << "apptType", "firstName", "lastName", "phone", "email", "date",
       "timeSlots", "submit" >>

LookedUp == SelectSeq(ops, LAMBDA e : e.op \in {"$", "$$"})

\* classify on each text the booking page may show
Classification == [t \in BookingPageTexts \ {Null} |-> classify(t)]

\* C16: the absence of any of the form controls is no error.  In an attempt
\* in which no call is rejected: an absent control is not touched (no fill,
\* select or click on it; with no time-slot elements no element is read or
\* clicked), every control is still looked up in turn, the page text is read,
\* and when it is a string the attempt returns its classification, which the
\* handler answers with status 200.
C16_AbsentControlsSkipped ==
    FailedCalls = 0 =>
       /\ \A t \in FormControls :
             IsAbsent(t) => \A i \in DOMAIN ops : ops[i].target = t => ops[i].op = "$"
       /\ NoTimeSlotElements => \A i \in DOMAIN ops : ops[i].target # "timeSlot"
       /\ StageOf(pc) > StageOf("submit.click") =>
             /\ [i \in DOMAIN LookedUp |-> LookedUp[i].target] = ControlLookups
             /\ pc # "threw"
       /\ (AttemptOver /\ pageText # Null) =>
             /\ pc = "returned"
             /\ result = Classification[pageText]
             /\ hpc = "done" =>
                   /\ res.status = 200
                   /\ res.body.success = Classification[pageText].success
                   /\ res.body.message = Classification[pageText].message

\* No control at all on the page, and an outcome from the page text
C16_Witness ==
    /\ hpc = "done"
    /\ FailedCalls = 0
    /\ \A t \in FormControls : IsAbsent(t)
    /\ NoTimeSlotElements
    /\ pageText # Null
    /\ res.status = 200
    /\ res.body.success = Classification[pageText].success

-----------------------------------------------------------------------------
(* The time-slot scan *)

\* The visible text of element k contains the requested time
ShowsTime(k) ==
    /\ timeSlotButtons[k] # Null
    /\ \E from \in 1..Len(timeSlotButtons[k]) :
          /\ from + Len(patientData.time) - 1 <= Len(timeSlotButtons[k])
          /\ SubSeq(timeSlotButtons[k], from, from + Len(patientData.time) - 1)
                = patientData.time

SlotClicks == { i \in DOMAIN ops : ops[i].op = "click" /\ ops[i].target = "timeSlot" }
SlotReads == { i \in DOMAIN ops : ops[i].op = "textContent" /\ ops[i].target = "timeSlot" }

\* The scan is behind: the submit control has been looked up
ScanOver ==
    \E i \in DOMAIN ops : ops[i].op = "$" /\ ops[i].target = "submit"

\* C17: the time-slot scan clicks at most one element per attempt: the first
\* one, in page order, whose visible text contains the requested time; after
\* the click no further element is read or clicked; when no element shows the
\* time nothing is clicked, every element is read once and the flow goes on
\* to the submit control.
C17_FirstMatchingSlotOnly ==
    /\ Cardinality(SlotClicks) <= 1
    /\ \A i \in SlotClicks :
          /\ ShowsTime(ops[i].index)
          /\ \A k \in 1..(ops[i].index - 1) : ~ShowsTime(k)
          /\ \A j \in (i + 1)..Len(ops) : ops[j].target # "timeSlot"
    /\ ScanOver =>
          IF \E k \in DOMAIN timeSlotButtons : ShowsTime(k)
          THEN SlotClicks # {}
          ELSE /\ SlotClicks = {}
               /\ Cardinality(SlotReads) = Len(timeSlotButtons)

\* The second of three elements was clicked: the first does not show the
\* time, the third shows it too
C17_Witness ==
    /\ AttemptOver
    /\ Len(timeSlotButtons) = 3
    /\ \E i \in SlotClicks : ops[i].index = 2 /\ ops[i].ok
    /\ ShowsTime(3)
    /\ ScanOver

-----------------------------------------------------------------------------
(* The outcome and the phone field *)

\* The retry of lines 188-195 ran
PhoneRetried == \E i \in DOMAIN PhoneCalls : i > 3

\* C18: a truncated phone is never reported as an error.  Two attempts in
\* which no call is rejected and which end on the same page text have the
\* same success and message, whatever the phone field read back, whether the
\* retry ran and whatever the field holds in the end: in every such attempt
\* success and message are those of the classification of the page text, a
\* function of the text alone.
C18_OutcomeIgnoresPhoneField ==
    (AttemptOver /\ FailedCalls = 0 /\ pageText # Null) =>
       LET outcome == Classification[pageText]
       IN  /\ pc = "returned"
           /\ <<result.success, result.message>> = <<outcome.success, outcome.message>>
           /\ hpc = "done" =>
                 <<res.body.success, res.body.message>> =
                    <<outcome.success, outcome.message>>

\* A truncated read-back and a retry in an attempt that reports a booking
C18_Witness ==
    /\ hpc = "done"
    /\ FailedCalls = 0
    /\ PhoneRetried
    /\ Len(enteredPhone) < Len(normalizedPhone)
    /\ res.status = 200
    /\ res.body.success = TRUE
    /\ res.body.message = MsgBooked

-----------------------------------------------------------------------------
(* The confirmation number and the success flag *)

\* The outcome carries a confirmation number
NumberPresent(outcome) ==
    /\ Get(outcome, "confirmationNumber") # Undefined
    /\ Get(outcome, "confirmationNumber") # Null

\* C19: an outcome returned by bookAppointment carries a confirmation number
\* only if its success is true: the number comes from the positive-token
\* branch alone (message "Appointment booked successfully", page text with a
\* positive token); the negative outcome, the unverified one and the error
\* outcomes carry none, and so does the handler's response.
C19_NumberOnlyWithSuccess ==
    /\ (pc = "returned" /\ NumberPresent(result)) =>
          /\ result.success = TRUE
          /\ result.message = MsgBooked
          /\ pageText # Null
          /\ HasPositiveToken(pageText)
    /\ (hpc = "done" /\ res.status = 200 /\ NumberPresent(res.body)) =>
          /\ res.body.success = TRUE
          /\ res.body.message = MsgBooked

\* A failed booking whose page shows a label and a code, answered without a
\* confirmation number
C19_Witness ==
    /\ hpc = "done"
    /\ res.status = 200
    /\ pageText # Null
    /\ HasLabelWithCode(pageText)
    /\ res.body.success = FALSE
    /\ res.body.message = MsgValidation
    /\ ~NumberPresent(res.body)

=============================================================================
